---- MODULE Spec2Model ----
(***************************************************************************)
(* Z-Machine API: the session registry and its three interpreter adapters  *)
(* (scripted stub: src/server.js; in-process ebozz wrapper and dfrotz      *)
(* subprocess wrapper: src/unnamed/part_000).                              *)
(*                                                                         *)
(* Representation of JavaScript values                                     *)
(*   - a text (transcript) is the sequence of its lines, '' is <<>>; the   *)
(*     stub's trailing "\n>" is a last line ">".  The subprocess byte      *)
(*     stream is a sequence of one-character strings.                      *)
(*   - a request value (command, gamePath) is a record [kind, v] so that   *)
(*     undefined, strings and numbers live in one comparable type.         *)
(*   - createdAt (a wall-clock timestamp) is not modelled.                 *)
(***************************************************************************)
EXTENDS Integers, Sequences, FiniteSets, TLC

VARIABLES
    variant,    \* which of the three server programs is running
    server,     \* "up", "crashed" (uncaught exception), "none" (no HTTP server:
                \* one adapter object is driven by direct method calls), "play"
                \* (one started stub adapter is sent game commands)
    sessions,   \* the sessions Map: session id -> session entry
    heap,       \* the adapter objects ever constructed, by allocation index
    nextId,     \* number of crypto.randomUUID() results handed out so far
    resp,       \* the last HTTP response sent (or method result returned)
    deleted,    \* history: ids whose DELETE answered success
    lastOut,    \* history: transcript last returned by start/submit, per id
    calls,      \* history: the methods called directly on the adapter, in order
                \* (under "play": "start", then the text of each command)
    cli         \* the ZMachineCLI client process talking to the server

vars == <<variant, server, sessions, heap, nextId, resp, deleted, lastOut, calls, cli>>

----------------------------------------------------------------------------
(* Bounds *)

MaxIds == 2        \* session-creation requests (uuids generated) per run
MaxLive == 2       \* adapters alive (started and not deleted) at one time
MaxBytes == 2      \* stdout 'data' events the dfrotz processes deliver per run
MaxPending == 1    \* overlapping sendCommand calls per subprocess adapter
MaxCalls == 3      \* direct method calls in the adapter-level harness
MaxWrites == 1     \* writes to the stdin of dfrotz processes per run
MaxQueue == 1      \* commands waiting in one APIScreen inputQueue
GamePlanLen == 1   \* entries into the ebozz Game during one call
MaxTurns == 4      \* start plus the commands of one stub game
MaxTasks == 2      \* sendCommand invocations of the client in flight together

Ids == 1..MaxIds

----------------------------------------------------------------------------
(* JavaScript values *)

Undefined == [kind |-> "undefined", v |-> <<>>]
Str(ws) == [kind |-> "string", v |-> ws]
Num(n) == [kind |-> "number", v |-> <<n>>]
Null == [kind |-> "null", v |-> <<>>]

\* JS truthiness of a request value: undefined, null, '' and 0 are falsy
Truthy(x) ==
    CASE x.kind = "undefined" -> FALSE
      [] x.kind = "null" -> FALSE
      [] x.kind = "string" -> x.v # <<>>
      [] x.kind = "number" -> x.v # <<0>>

\* a || b
OrElse(a, b) == IF Truthy(a) THEN a ELSE b

----------------------------------------------------------------------------
(* Paths: a path string is the sequence of its segments; an absolute path   *)
(* starts with the segment "/".                                             *)

Cwd == <<"/", "srv">>
Dirname == <<"/", "app">>

IsAbsolute(p) == Len(p) > 0 /\ p[1] = "/"

RECURSIVE NormalizeSegs(_, _)
\* path.resolve normalisation of the segments after the root: "." is
\* dropped, ".." removes the segment before it (and is dropped at the root)
NormalizeSegs(acc, rest) ==
    IF rest = <<>> THEN acc
    ELSE LET s == Head(rest) IN
         IF s = "." THEN NormalizeSegs(acc, Tail(rest))
         ELSE IF s = ".."
              THEN NormalizeSegs(IF acc = <<>> THEN acc
                                 ELSE SubSeq(acc, 1, Len(acc) - 1), Tail(rest))
              ELSE NormalizeSegs(Append(acc, s), Tail(rest))

\* path.resolve(p): absolute, normalised
PathResolve(p) ==
    LET full == IF IsAbsolute(p) THEN p ELSE Cwd \o p
    IN <<"/">> \o NormalizeSegs(<<>>, Tail(full))

\* path.join(__dirname, 'games', 'zork1.zip') (no DEFAULT_GAME in the environment)
DEFAULT_GAME == Str(Dirname \o <<"games", "zork1.zip">>)

\* the files present on disk
ExistingFiles == { <<"/", "app", "games", "zork1.zip">>, <<"/", "srv", "story.z5">> }

\* fs.existsSync
ExistsSync(p) == p \in ExistingFiles

\* loadGame handing back the path as posted instead of the resolved one
MutLoadGameUnresolved(gamePath) ==
    IF gamePath.kind # "string"
    THEN [ok |-> FALSE, fullPath |-> <<>>]
    ELSE [ok |-> ExistsSync(PathResolve(gamePath.v)), fullPath |-> gamePath.v]

\* loadGame(gamePath): resolves and checks the file; ok = FALSE is the throw
\* of "Game file not found" (path.resolve of a non-string throws as well)
loadGame(gamePath) ==
    IF gamePath.kind # "string"
    THEN [ok |-> FALSE, fullPath |-> <<>>]
    ELSE LET fullPath == PathResolve(gamePath.v)
         IN [ok |-> ExistsSync(fullPath), fullPath |-> fullPath]

\* gamePath values a client may post
GamePathArgs ==
    { Undefined, Str(<<>>), Str(<<"story.z5">>),
      Str(<<".", "tmp", "..", "story.z5">>), Str(<<"nope.z5">>) }

\* the gamePath values posted to the subprocess server: the default, a
\* relative path of an existing file and a missing file
SpawnGamePathArgs == { Undefined, Str(<<"story.z5">>), Str(<<"nope.z5">>) }

----------------------------------------------------------------------------
(* Scripted stub: class ZMachineAPI (src/server.js)                         *)

Prompt == <<">">>

RECURSIVE Indented(_)
\* the lines of '  ' + items.join('\n  ') for a non-empty list
Indented(items) ==
    IF items = <<>> THEN <<>>
    ELSE <<"  " \o Head(items)>> \o Indented(Tail(items))

RECURSIVE JoinSpace(_)
\* words.join(' ')
JoinSpace(ws) ==
    IF ws = <<>> THEN ""
    ELSE IF Len(ws) = 1 THEN ws[1]
         ELSE ws[1] \o " " \o JoinSpace(Tail(ws))

\* String.prototype.toLowerCase on the words in use
ToLowerCase(w) ==
    CASE w = "LOOK" -> "look"
      [] w = "Open" -> "open"
      [] w = "EAST" -> "east"
      [] OTHER -> w

\* Array.prototype.includes / indexOf on the inventory (0 = absent)
Includes(seq, x) == \E i \in DOMAIN seq : seq[i] = x
IndexOf(seq, x) ==
    IF Includes(seq, x) THEN CHOOSE i \in DOMAIN seq :
                                 seq[i] = x /\ \A j \in 1..(i - 1) : seq[j] # x
    ELSE 0
\* splice(idx, 1)
Splice1(seq, idx) == SubSeq(seq, 1, idx - 1) \o SubSeq(seq, idx + 1, Len(seq))

\* new ZMachineAPI(storyFile)
NewZMachineAPI(storyFile) ==
    [ storyFile |-> storyFile,
      outputBuffer |-> <<>>,
      inputBuffer |-> Str(<<>>),
      gameStarted |-> FALSE,
      gameEnded |-> FALSE,
      location |-> "field",
      inventory |-> <<>>,
      openedMailbox |-> FALSE ]

getWelcomeMessage ==
    << "ZORK I: The Great Underground Empire",
       "Infocom interactive fiction - a fantasy story",
       "Copyright (c) 1981, 1982, 1983, 1984, 1985, 1986 Infocom, Inc. All Rights Reserved.",
       "ZORK is a registered trademark of Infocom, Inc.",
       "",
       "Release 119 / Serial number 880429",
       "",
       "West of House",
       "You are standing in an open field west of a white house, with a boarded front door.",
       "There is a small mailbox here.",
       "",
       ">" >>

\* every do* operator returns [a |-> the adapter afterwards, out |-> the text]
Ret(a, out) == [a |-> a, out |-> out]

doLook(a) ==
    IF a.location = "field"
    THEN LET msg == << "West of House",
                       "You are standing in an open field west of a white house, with a boarded front door.",
                       "There is a small mailbox here." >>
             carrying == IF Len(a.inventory) > 0
                         THEN <<"", "You are carrying:">> \o Indented(a.inventory)
                         ELSE <<>>
         IN Ret(a, msg \o carrying \o Prompt)
    ELSE IF a.location = "porch"
    THEN Ret(a, << "Front Porch",
                   "You are on the porch of the white house. The front door is to the east.",
                   "The windows are boarded up. A path leads west back to the field.",
                   "" >> \o Prompt)
    ELSE Ret(a, <<"Unknown location.">> \o Prompt)

doGo(a, direction) ==
    LET dir == ToLowerCase(direction) IN
    IF a.location = "field" /\ dir \in {"east", "e"}
    THEN Ret([a EXCEPT !.location = "porch"],
             <<"You go around to the front of the house and climb the porch.">> \o Prompt)
    ELSE IF a.location = "field" /\ dir \in {"north", "south", "west", "w"}
    THEN Ret(a, <<"You would only find more fields that way.">> \o Prompt)
    ELSE IF a.location = "porch" /\ dir \in {"west", "w", "back"}
    THEN Ret([a EXCEPT !.location = "field"],
             <<"You go back to the open field.">> \o Prompt)
    ELSE IF a.location = "porch" /\ dir \in {"east", "e", "enter", "in"}
    THEN Ret(a, <<"The door is locked. You need to find another way in.">> \o Prompt)
    ELSE Ret(a, <<"You can't go that way.">> \o Prompt)

doOpen(a, thing) ==
    IF thing \in {"mailbox", "box"}
    THEN Ret([a EXCEPT !.openedMailbox = TRUE],
             <<"You open the mailbox. Inside, you see a brochure.">> \o Prompt)
    ELSE IF thing = "door"
    THEN Ret(a, <<"It's locked. You need a key or another way in.">> \o Prompt)
    ELSE IF thing = "window"
    THEN Ret(a, <<"The windows are boarded up. You can't open them.">> \o Prompt)
    ELSE Ret(a, <<"You can't open that.">> \o Prompt)

\* a doTake that answers "Taken." for the brochure without inventory.push
MutDoTakeNoPush(a, thing) ==
    IF a.location # "field"
    THEN Ret(a, <<"You don't see that here.">> \o Prompt)
    ELSE IF thing \in {"knife", "rusty knife", "rusty"}
    THEN IF Includes(a.inventory, "rusty knife")
         THEN Ret(a, <<"You already have that.">> \o Prompt)
         ELSE Ret([a EXCEPT !.inventory = Append(@, "rusty knife")],
                  <<"Taken.">> \o Prompt)
    ELSE IF thing \in {"brochure", "paper", "mail"}
    THEN IF ~a.openedMailbox
         THEN Ret(a, <<"You don't see that here. Maybe you should open the mailbox first?">>
                     \o Prompt)
         ELSE Ret(a, <<"Taken.">> \o Prompt)
    ELSE IF thing = "mailbox"
    THEN Ret(a, <<"That's fixed in place.">> \o Prompt)
    ELSE Ret(a, <<"You don't see that here.">> \o Prompt)

doTake(a, thing) ==
    IF a.location # "field"
    THEN Ret(a, <<"You don't see that here.">> \o Prompt)
    ELSE IF thing \in {"knife", "rusty knife", "rusty"}
    THEN IF Includes(a.inventory, "rusty knife")
         THEN Ret(a, <<"You already have that.">> \o Prompt)
         ELSE Ret([a EXCEPT !.inventory = Append(@, "rusty knife")],
                  <<"Taken.">> \o Prompt)
    ELSE IF thing \in {"brochure", "paper", "mail"}
    THEN IF ~a.openedMailbox
         THEN Ret(a, <<"You don't see that here. Maybe you should open the mailbox first?">>
                     \o Prompt)
         ELSE IF Includes(a.inventory, "brochure")
         THEN Ret(a, <<"You already have that.">> \o Prompt)
         ELSE Ret([a EXCEPT !.inventory = Append(@, "brochure")],
                  <<"Taken.">> \o Prompt)
    ELSE IF thing = "mailbox"
    THEN Ret(a, <<"That's fixed in place.">> \o Prompt)
    ELSE Ret(a, <<"You don't see that here.">> \o Prompt)

doDrop(a, thing) ==
    LET idx == IndexOf(a.inventory, "rusty knife") IN
    IF thing \in {"knife", "rusty knife", "rusty"} /\ idx >= 1
    THEN Ret([a EXCEPT !.inventory = Splice1(@, idx)], <<"Dropped.">> \o Prompt)
    ELSE Ret(a, <<"You don't have that.">> \o Prompt)

doInventory(a) ==
    IF Len(a.inventory) = 0
    THEN Ret(a, <<"You are not carrying anything.">> \o Prompt)
    ELSE Ret(a, <<"You are carrying:">> \o Indented(a.inventory) \o Prompt)

\* an examine that opens the mailbox it looks at
MutDoExamineOpens(a, thing) ==
    IF thing \in {"mailbox", "box"}
    THEN Ret([a EXCEPT !.openedMailbox = TRUE],
             <<"It's a small US mailbox, painted blue. There's a small slot in it. It's open.">>
             \o Prompt)
    ELSE Ret(a, <<"You see nothing special about that.">> \o Prompt)

doExamine(a, thing) ==
    IF thing \in {"mailbox", "box"}
    THEN Ret(a, << IF a.openedMailbox
                   THEN "It's a small US mailbox, painted blue. There's a small slot in it. It's open."
                   ELSE "It's a small US mailbox, painted blue. There's a small slot in it." >>
                \o Prompt)
    ELSE IF thing \in {"knife", "rusty knife", "rusty"}
    THEN Ret(a, << IF Includes(a.inventory, "rusty knife")
                   THEN "It's a rusty knife. The blade is pitted from years of exposure. You could take it if you want."
                   ELSE "A rusty knife is stuck in the ground here. The blade is pitted from years of exposure." >>
                \o Prompt)
    ELSE IF thing = "door" /\ a.location = "porch"
    THEN Ret(a, <<"The front door is locked. It's a heavy wooden door with iron reinforcements.">>
                \o Prompt)
    ELSE IF thing \in {"brochure", "paper"}
    THEN Ret(a, <<"A brochure for the \"Great Underground Empire\". It mentions something about a thief and treasures...">>
                \o Prompt)
    ELSE IF thing = "house" /\ a.location = "field"
    THEN Ret(a, <<"The house is a three-story Georgian-style house, painted white. The front door is boarded up.">>
                \o Prompt)
    ELSE Ret(a, <<"You see nothing special about that.">> \o Prompt)

doRead(a, thing) ==
    IF thing \in {"brochure", "paper"}
    THEN IF Includes(a.inventory, "brochure")
         THEN Ret(a, << "\"WELCOME TO THE GREAT UNDERGROUND EMPIRE!",
                        "A world of excitement, adventure, and danger awaits you.",
                        "Discover the treasures of Zork!",
                        "",
                        "Note: The Front Door is locked. Try the West of House...",
                        "" >>)
         ELSE Ret(a, <<"You don't have anything to read.">> \o Prompt)
    ELSE IF thing = "mailbox"
    THEN Ret(a, <<"The mailbox is too dirty to read.">> \o Prompt)
    ELSE Ret(a, <<"You can't read that.">> \o Prompt)

doScore(a) ==
    LET score == Len(a.inventory) * 10
    IN Ret(a, <<"Your score is " \o ToString(score) \o ".">> \o Prompt)

doWait(a) == Ret(a, <<"Time passes...">> \o Prompt)

\* ZMachineAPI.start()
StubStart(a) == Ret([a EXCEPT !.gameStarted = TRUE], getWelcomeMessage)

\* a restart that closes the mailbox but keeps what the player carries
MutDoRestartKeepsInventory(a) ==
    StubStart([a EXCEPT !.location = "field",
                        !.openedMailbox = FALSE, !.gameStarted = FALSE])

doRestart(a) ==
    StubStart([a EXCEPT !.location = "field", !.inventory = <<>>,
                        !.openedMailbox = FALSE, !.gameStarted = FALSE])

doHelp(a) ==
    Ret(a, << "Available commands:",
              "  look / l              - Look around",
              "  go [direction]        - Move (north/south/east/west/up/down)",
              "  open [thing]          - Open something",
              "  take [thing]          - Pick something up",
              "  drop [thing]          - Drop something",
              "  inventory / i         - Check what you're carrying",
              "  examine / x [thing]   - Look at something closely",
              "  read [thing]          - Read something",
              "  score                 - Check your score",
              "  wait                  - Wait for a while",
              "  restart               - Start the game over",
              "  help                  - Show this message",
              "  quit / q              - Quit the game" >> \o Prompt)

doQuit(a) ==
    Ret([a EXCEPT !.gameEnded = TRUE], <<"Would you like to quit? (Y)es or (N)o: >">>)

\* cmd.toLowerCase().trim().split(/\s+/) of a string given by its words;
\* '' and an all-blank string both split to ['']
SplitWords(ws) ==
    IF ws = <<>> \/ ws = <<" ">> THEN <<"">>
    ELSE [i \in DOMAIN ws |-> ToLowerCase(ws[i])]

Directions ==
    {"north", "n", "south", "s", "east", "e", "west", "w", "up", "u", "down", "d"}

\* ZMachineAPI.processCommand(cmd), cmd a string
processCommand(a, cmd) ==
    LET words == SplitWords(cmd)
        verb == words[1]
        noun == JoinSpace(Tail(words))
    IN IF Len(words) = 0 THEN Ret(a, Prompt)
       ELSE IF verb \in {"look", "l"} THEN doLook(a)
       ELSE IF verb \in {"go", "walk", "move"} THEN doGo(a, noun)
       ELSE IF verb \in Directions THEN doGo(a, verb)
       ELSE IF verb \in {"open", "unlock"} THEN doOpen(a, noun)
       ELSE IF verb \in {"take", "get", "grab", "pick"} THEN doTake(a, noun)
       ELSE IF verb = "drop" THEN doDrop(a, noun)
       ELSE IF verb \in {"inventory", "i", "inv"} THEN doInventory(a)
       ELSE IF verb \in {"examine", "x"} \/ (verb = "look" /\ noun # "")
            THEN doExamine(a, noun)
       ELSE IF verb = "read" THEN doRead(a, noun)
       ELSE IF verb = "help" THEN doHelp(a)
       ELSE IF verb \in {"quit", "q"} THEN doQuit(a)
       ELSE IF verb = "score" THEN doScore(a)
       ELSE IF verb = "wait" THEN doWait(a)
       ELSE IF verb = "restart" THEN doRestart(a)
       ELSE Ret(a, <<"I don't understand that command. Type 'help' for a list of commands.">>
                   \o Prompt)

\* ZMachineAPI.run(): threw is the TypeError of cmd.toLowerCase on a
\* non-string; produced is the text generated during this call
StubRun(a) ==
    IF ~a.gameStarted
    THEN [a |-> [a EXCEPT !.gameStarted = TRUE], out |-> getWelcomeMessage,
          threw |-> FALSE, produced |-> getWelcomeMessage]
    ELSE IF Truthy(a.inputBuffer)
    THEN IF a.inputBuffer.kind # "string"
         THEN [a |-> a, out |-> <<>>, threw |-> TRUE, produced |-> <<>>]
         ELSE LET r == processCommand(a, a.inputBuffer.v)
              IN [a |-> [r.a EXCEPT !.outputBuffer = r.out, !.inputBuffer = Str(<<>>)],
                  out |-> r.out, threw |-> FALSE, produced |-> r.out]
    ELSE [a |-> a, out |-> a.outputBuffer, threw |-> FALSE, produced |-> <<>>]

\* ZMachineAPI.input(command)
StubInput(a, command) == StubRun([a EXCEPT !.inputBuffer = command])

----------------------------------------------------------------------------
(* In-process variant: APIScreen and ZMachineSession (src/unnamed/part_000) *)
(* The ebozz Game is a library outside the repository.  One entry into it   *)
(* (execute, executeLoop, continueAfterUserInput) is a step of a plan: it   *)
(* prints a text and then returns, faults, or asks the screen for input     *)
(* and returns ("input") or throws SuspendForUserInput ("suspend").         *)

GameTexts == { <<>>, <<"West of House">> }
GameEnds == {"return", "fault", "input", "suspend"}
GameSteps == [print : GameTexts, end : GameEnds]
GamePlans == UNION { [1..n -> GameSteps] : n \in 0..GamePlanLen }

\* new ZMachineSession(gameData, gamePath) with its new APIScreen;
\* pendingInputState 0 is null/undefined and 1 an input state of the game,
\* an absent inputQueue is <<>>; resumed is history: the input state held
\* in pendingInputState has been passed to game.continueAfterUserInput
NewZMachineSession(gamePath) ==
    [ gamePath |-> gamePath,
      started |-> FALSE,
      executing |-> FALSE,
      output |-> <<>>,
      pendingInputState |-> 0,
      gameInstance |-> FALSE,
      inputQueue |-> <<>>,
      resumed |-> FALSE ]

\* APIScreen.print
ScreenPrint(s, str) == [s EXCEPT !.output = @ \o str]

GameRet(s, threw, plan) == [s |-> s, threw |-> threw, plan |-> plan]

RECURSIVE GameRun(_, _)
RECURSIVE getInputFromUser(_, _)

\* APIScreen.getInputFromUser(game, input_state)
getInputFromUser(s, plan) ==
    LET s1 == [s EXCEPT !.pendingInputState = 1, !.gameInstance = TRUE,
                        !.resumed = FALSE]
    IN IF Len(s1.inputQueue) > 0
       THEN GameRun([s1 EXCEPT !.inputQueue = Tail(@), !.resumed = TRUE], plan)
       ELSE GameRet(s1, "none", plan)

\* one entry into the Game library
GameRun(s, plan) ==
    IF plan = <<>> THEN GameRet(s, "none", plan)
    ELSE LET step == Head(plan)
             s1 == ScreenPrint(s, step.print)
         IN CASE step.end = "return" -> GameRet(s1, "none", Tail(plan))
              [] step.end = "fault" -> GameRet(s1, "fault", Tail(plan))
              [] OTHER ->
                   LET g == getInputFromUser(s1, Tail(plan))
                   IN IF g.threw # "none" THEN g
                      ELSE GameRet(g.s, IF step.end = "suspend" THEN "suspend" ELSE "none",
                                   g.plan)

\* APIScreen.setPendingInput(input)
setPendingInput(s, input, plan) ==
    IF s.pendingInputState # 0 /\ s.gameInstance
    THEN LET g == GameRun([s EXCEPT !.resumed = TRUE], plan)
         IN IF g.threw # "none" THEN g
            ELSE GameRet([g.s EXCEPT !.pendingInputState = 0, !.resumed = FALSE],
                         "none", g.plan)
    ELSE GameRet([s EXCEPT !.inputQueue = Append(@, input)], "none", plan)

\* ZMachineSession.start(): every throw of game.execute() is caught
InprocStart(s, plan) ==
    IF s.started THEN [a |-> s, out |-> s.output, threw |-> FALSE]
    ELSE LET s1 == [s EXCEPT !.started = TRUE, !.executing = TRUE]
             g == GameRun(s1, plan)
             s2 == [g.s EXCEPT !.executing = FALSE]
         IN [a |-> s2, out |-> s2.output, threw |-> FALSE]

\* ZMachineSession.sendCommand(command): setPendingInput runs outside the try
InprocSendCommand(s, command, plan) ==
    LET s1 == [s EXCEPT !.output = <<>>]
        p == setPendingInput(s1, command, plan)
    IN IF p.threw # "none"
       THEN [a |-> p.s, out |-> <<>>, threw |-> TRUE]
       ELSE IF ~p.s.executing
            THEN LET g == GameRun([p.s EXCEPT !.executing = TRUE], p.plan)
                     s2 == [g.s EXCEPT !.executing = FALSE]
                 IN [a |-> s2, out |-> s2.output, threw |-> FALSE]
            ELSE [a |-> p.s, out |-> p.s.output, threw |-> FALSE]

----------------------------------------------------------------------------
(* Subprocess variant: class DFrotzSession (src/unnamed/part_000)           *)
(* The record holds the object's fields, the closure state of start() and   *)
(* of the sendCommand calls in flight, and the ChildProcess it spawned.     *)

\* stdout 'data' chunks dfrotz may deliver (an echoed line, a line of text
\* followed by the prompt, the game banner)
Chunks == { <<"e", "\n">>, <<"t", "\n", ">">> }

\* String.prototype.includes for a string given as its characters
StrIncludes(s, sub) ==
    \E i \in 1..(Len(s) - Len(sub) + 1) : SubSeq(s, i, i + Len(sub) - 1) = sub

\* output.replace(/^[^\n]*\n/, ''): drops everything through the first newline
StripFirstLine(s) ==
    IF \E i \in DOMAIN s : s[i] = "\n"
    THEN LET n == CHOOSE i \in DOMAIN s :
                      s[i] = "\n" /\ \A j \in 1..(i - 1) : s[j] # "\n"
         IN SubSeq(s, n + 1, Len(s))
    ELSE s

\* String(command): what command + '\n' puts before the newline
ToStringJS(x) ==
    CASE x.kind = "undefined" -> "undefined"
      [] x.kind = "string" -> JoinSpace(x.v)
      [] x.kind = "number" -> ToString(x.v[1])

\* the ChildProcess object before spawn
NoChild ==
    [ running |-> FALSE,     \* the OS process exists
      killed |-> FALSE,      \* ChildProcess.killed
      stdin |-> <<>>,        \* the strings written to stdin
      stdinEnded |-> FALSE,
      ends |-> 0,            \* calls of stdin.end()
      kills |-> 0,           \* calls of kill()
      emitted |-> 0 ]        \* 'data' events delivered

\* new DFrotzSession(gamePath)
NewDFrotzSession(gamePath) ==
    [ gamePath |-> gamePath,
      proc |-> "null",
      outputBuffer |-> <<>>,
      inputBuffer |-> <<>>,
      ready |-> FALSE,
      startupOutput |-> <<>>,
      startPromise |-> "none",   \* none, pending, resolved, rejected
      collectors |-> <<>>,       \* the output variable of each sendCommand closure
                                 \* that awaits its 100 ms timer
      child |-> NoChild ]

\* DFrotzSession.start(), the synchronous part: spawn, listeners, timer
DFrotzStart(a) ==
    [a EXCEPT !.proc = "child",
              !.child = [NoChild EXCEPT !.running = TRUE],
              !.startupOutput = <<>>,
              !.startPromise = "pending"]

\* resolve/reject of the start promise settle it only once
Settle(a, how) == IF a.startPromise = "pending" THEN [a EXCEPT !.startPromise = how] ELSE a

\* the stdout 'data' listener registered by start()
StartupListener(a, text) ==
    LET a1 == [a EXCEPT !.startupOutput = @ \o text]
    IN IF StrIncludes(a1.startupOutput, <<">">>)
          \/ StrIncludes(a1.startupOutput, <<"Z", "O", "R", "K">>)
       THEN Settle([a1 EXCEPT !.ready = TRUE, !.outputBuffer = a1.startupOutput],
                   "resolved")
       ELSE a1

\* collectOutput of every sendCommand in flight
CollectOutput(a, text) ==
    [a EXCEPT !.collectors = [k \in DOMAIN @ |-> @[k] \o text]]

\* one stdout 'data' event: the listeners run in registration order
OnData(a, text) ==
    [CollectOutput(StartupListener(a, text), text) EXCEPT !.child.emitted = @ + 1]

\* the proc 'error' handler (the process could not be spawned)
OnError(a) == Settle([a EXCEPT !.child.running = FALSE], "rejected")

\* the setTimeout(..., 10000) callback of start()
OnStartTimeout(a) ==
    IF ~a.ready
    THEN Settle([a EXCEPT !.ready = TRUE, !.outputBuffer = a.startupOutput], "resolved")
    ELSE a

\* DFrotzSession.sendCommand(command), the synchronous part
DFrotzSendCommand(a, command) ==
    IF a.proc = "null" \/ a.child.killed
    THEN [a |-> a, rejected |-> TRUE]
    ELSE [a |-> [a EXCEPT !.child.stdin = Append(@, <<ToStringJS(command), "\n">>),
                          !.collectors = Append(@, <<>>)],
          rejected |-> FALSE]

\* a timer callback that forgets to remove the echoed first line
MutSubmitTimeoutNoStrip(a) ==
    LET collected == Head(a.collectors)
        rest == [a EXCEPT !.collectors = Tail(@)]
    IN IF a.proc = "null"
       THEN [a |-> rest, out |-> <<>>, threw |-> TRUE]
       ELSE [a |-> [rest EXCEPT !.outputBuffer = collected], out |-> collected,
             threw |-> FALSE]

\* the setTimeout(..., 100) callback of the oldest sendCommand in flight;
\* threw is the TypeError of this.proc.stdout when proc is null
OnSubmitTimeout(a) ==
    LET collected == Head(a.collectors)
        rest == [a EXCEPT !.collectors = Tail(@)]
    IN IF a.proc = "null"
       THEN [a |-> rest, out |-> <<>>, threw |-> TRUE]
       ELSE LET output == StripFirstLine(collected)
            IN [a |-> [rest EXCEPT !.outputBuffer = output], out |-> output,
                threw |-> FALSE]

\* ChildProcess.kill(): killed is set when the signal could be delivered,
\* and the process ends on it without delivering further output
Kill(c) == [c EXCEPT !.kills = @ + 1, !.killed = @ \/ c.running, !.running = FALSE]

\* a cleanup that forgets this.proc = null
MutCleanupKeepsProc(a) ==
    IF a.proc # "null"
    THEN [a EXCEPT !.child = Kill([@ EXCEPT !.stdinEnded = TRUE, !.ends = @ + 1])]
    ELSE a

\* DFrotzSession.cleanup()
DFrotzCleanup(a) ==
    IF a.proc # "null"
    THEN [a EXCEPT !.child = Kill([@ EXCEPT !.stdinEnded = TRUE, !.ends = @ + 1]),
                   !.proc = "null"]
    ELSE a

----------------------------------------------------------------------------
(* The HTTP handlers.  A response is recorded in resp; status 0 marks a     *)
(* request or call whose promise is still pending.                          *)

Variants == {"stub", "inproc", "subproc"}

\* command values a client may post; the in-process and subprocess adapters
\* pass the value on without looking into it
Commands ==
    CASE variant = "stub" -> { Undefined, Str(<<>>), Str(<<"look">>), Num(42) }
      [] variant = "inproc" -> { Str(<<>>), Str(<<"look">>) }
      [] variant = "subproc" -> { Undefined, Str(<<"look">>) }

Resp(op, id, status, arg, output, gamePath, produced) ==
    [ op |-> op, id |-> id, status |-> status, arg |-> arg, output |-> output,
      gamePath |-> gamePath, produced |-> produced, disposed |-> <<>> ]

NoResp == Resp("none", 0, 0, Undefined, <<>>, <<>>, <<>>)

RECURSIVE SumOver(_, _)
\* the sum of f[i] over the indices in S
SumOver(f, S) ==
    IF S = {} THEN 0
    ELSE LET i == CHOOSE j \in S : TRUE IN f[i] + SumOver(f, S \ {i})

\* 'data' events delivered and stdin writes made so far, over all processes
TotalEmitted == SumOver([i \in DOMAIN heap |-> heap[i].child.emitted], DOMAIN heap)
TotalWrites == SumOver([i \in DOMAIN heap |-> Len(heap[i].child.stdin)], DOMAIN heap)

\* a DFrotzSession nothing can act on any more: its promise is settled, its
\* start timer has nothing left to do, no sendCommand timer is armed and
\* its process has ended
Finished(a) ==
    /\ a.startPromise # "pending"
    /\ a.ready
    /\ a.collectors = <<>>
    /\ ~a.child.running

\* the heap h without the adapters that are unreachable: finished and not
\* referred to by an entry of the registry (domain reg)
Sweep(h, reg) ==
    IF server = "up" /\ variant = "subproc"
    THEN [i \in { j \in DOMAIN h : j \in reg \/ ~Finished(h[j]) } |-> h[i]]
    ELSE h

\* the adapters that are registered or being started
LiveAdapters ==
    { i \in DOMAIN heap : i \in DOMAIN sessions
                          \/ (variant = "subproc" /\ heap[i].startPromise = "pending") }

\* sessions.get(sessionId) is defined / sessions.has(sessionId)
HasSession(id) == id \in DOMAIN sessions

\* the adapter object a session entry refers to
AdapterOf(id) == heap[sessions[id].ref]

\* the gamePath GET /api/sessions/:sessionId reports (getInfo() in the
\* in-process server, the entry's field in the other two)
SessionGamePath(id) ==
    IF variant = "inproc" THEN AdapterOf(id).gamePath ELSE sessions[id].gamePath

\* the text GET /api/sessions/:sessionId/output reports
SessionOutput(id) ==
    IF variant = "inproc" THEN AdapterOf(id).output ELSE AdapterOf(id).outputBuffer

\* a catch branch that leaves an entry for the failed session behind
MutCreateFailStores(sessionId, gp) ==
    /\ resp' = Resp("create", sessionId, 400, gp, <<>>, <<>>, <<>>)
    /\ sessions' = sessions @@ (sessionId :> [ref |-> sessionId, gamePath |-> <<>>])
    /\ UNCHANGED lastOut

\* the catch branch of POST /api/sessions
CreateFail(sessionId, gp) ==
    /\ resp' = Resp("create", sessionId, 400, gp, <<>>, <<>>, <<>>)
    /\ UNCHANGED <<sessions, lastOut>>

\* a create handler that answers 200 without sessions.set
MutCreateStoreNoSet(sessionId, gp, fullPath, output) ==
    /\ sessions' = sessions
    /\ lastOut' = lastOut @@ (sessionId :> output)
    /\ resp' = Resp("create", sessionId, 200, gp, output, fullPath, output)

\* sessions.set(sessionId, ...) and the 200 answer of POST /api/sessions
CreateStore(sessionId, gp, fullPath, output) ==
    /\ sessions' = sessions @@ (sessionId :>
                      IF variant = "inproc" THEN [ref |-> sessionId]
                      ELSE [ref |-> sessionId, gamePath |-> fullPath])
    /\ lastOut' = lastOut @@ (sessionId :> output)
    /\ resp' = Resp("create", sessionId, 200, gp, output, fullPath, output)

\* POST /api/sessions of the stub and in-process servers
CreateSession(gp) ==
    /\ server = "up"
    /\ variant \in {"stub", "inproc"}
    /\ nextId <= MaxIds
    /\ Cardinality(LiveAdapters) < MaxLive
    /\ LET sessionId == nextId
           actualPath == OrElse(gp, DEFAULT_GAME)
           g == loadGame(actualPath)
       IN /\ nextId' = nextId + 1
          /\ IF ~g.ok
             THEN CreateFail(sessionId, gp) /\ UNCHANGED heap
             ELSE IF variant = "stub"
             THEN LET r == StubStart(NewZMachineAPI(g.fullPath))
                  IN /\ heap' = heap @@ (sessionId :> r.a)
                     /\ CreateStore(sessionId, gp, g.fullPath, r.out)
             ELSE \E constructed \in BOOLEAN, plan \in GamePlans :
                    IF ~constructed
                    THEN plan = <<>> /\ CreateFail(sessionId, gp) /\ UNCHANGED heap
                    ELSE LET r == InprocStart(NewZMachineSession(g.fullPath), plan)
                         IN /\ heap' = heap @@ (sessionId :> r.a)
                            /\ CreateStore(sessionId, gp, g.fullPath, r.out)
    /\ UNCHANGED <<variant, server, deleted, calls>>

\* a create handler that stores the entry before it awaits start()
MutCreateSessionAsyncStoresFirst(gp) ==
    /\ server = "up"
    /\ variant = "subproc"
    /\ nextId <= MaxIds
    /\ Cardinality(LiveAdapters) < MaxLive
    /\ LET sessionId == nextId
           actualPath == OrElse(gp, DEFAULT_GAME)
           g == loadGame(actualPath)
       IN /\ nextId' = nextId + 1
          /\ IF ~g.ok
             THEN CreateFail(sessionId, gp) /\ UNCHANGED heap
             ELSE /\ heap' = heap @@ (sessionId :> DFrotzStart(NewDFrotzSession(g.fullPath)))
                  /\ sessions' = sessions @@ (sessionId :>
                                    [ref |-> sessionId, gamePath |-> g.fullPath])
                  /\ resp' = Resp("create", sessionId, 0, gp, <<>>, <<>>, <<>>)
                  /\ UNCHANGED lastOut
    /\ UNCHANGED <<variant, server, deleted, calls>>

\* POST /api/sessions of the subprocess server, up to the await of start()
CreateSessionAsync(gp) ==
    /\ server = "up"
    /\ variant = "subproc"
    /\ nextId <= MaxIds
    /\ Cardinality(LiveAdapters) < MaxLive
    /\ LET sessionId == nextId
           actualPath == OrElse(gp, DEFAULT_GAME)
           g == loadGame(actualPath)
       IN /\ nextId' = nextId + 1
          /\ IF ~g.ok
             THEN CreateFail(sessionId, gp) /\ UNCHANGED heap
             ELSE /\ heap' = heap @@ (sessionId :> DFrotzStart(NewDFrotzSession(g.fullPath)))
                  /\ resp' = Resp("create", sessionId, 0, gp, <<>>, <<>>, <<>>)
                  /\ UNCHANGED <<sessions, lastOut>>
    /\ UNCHANGED <<variant, server, deleted, calls>>

\* what follows the settling of a start promise: the rest of POST
\* /api/sessions, or the return to the direct caller
AfterStart(i, a2) ==
    IF heap[i].startPromise = "pending" /\ a2.startPromise = "resolved"
    THEN IF server = "up"
         THEN CreateStore(i, Undefined, a2.gamePath, a2.outputBuffer)
         ELSE /\ resp' = Resp("start", i, 200, Undefined, a2.outputBuffer, <<>>,
                              a2.outputBuffer)
              /\ lastOut' = [lastOut EXCEPT ![i] = a2.outputBuffer]
              /\ UNCHANGED sessions
    ELSE IF heap[i].startPromise = "pending" /\ a2.startPromise = "rejected"
    THEN /\ resp' = Resp(IF server = "up" THEN "create" ELSE "start", i,
                         IF server = "up" THEN 400 ELSE 500, Undefined, <<>>, <<>>, <<>>)
         /\ UNCHANGED <<sessions, lastOut>>
    ELSE /\ resp' = NoResp
         /\ UNCHANGED <<sessions, lastOut>>

Live == server \in {"up", "none"}

\* a stdout 'data' event of the process of adapter i
ProcData(i, text) ==
    /\ Live
    /\ variant = "subproc"
    /\ i \in DOMAIN heap
    /\ heap[i].child.running
    /\ TotalEmitted < MaxBytes
    /\ LET a2 == OnData(heap[i], text)
       IN /\ AfterStart(i, a2)
          /\ heap' = Sweep([heap EXCEPT ![i] = a2], DOMAIN sessions')
    /\ UNCHANGED <<variant, server, nextId, deleted, calls>>

\* the 'error' event of a process that could not be spawned
SpawnError(i) ==
    /\ Live
    /\ variant = "subproc"
    /\ i \in DOMAIN heap
    /\ heap[i].child.running
    /\ heap[i].child.emitted = 0
    /\ heap[i].child.stdin = <<>>
    /\ heap[i].startPromise = "pending"
    /\ LET a2 == OnError(heap[i])
       IN /\ AfterStart(i, a2)
          /\ heap' = Sweep([heap EXCEPT ![i] = a2], DOMAIN sessions')
    /\ UNCHANGED <<variant, server, nextId, deleted, calls>>

\* the process of adapter i ends by itself: 'close'
ProcClose(i) ==
    /\ Live
    /\ variant = "subproc"
    /\ i \in DOMAIN heap
    /\ heap[i].child.running
    /\ heap[i].startPromise # "none"
    /\ heap' = Sweep([heap EXCEPT ![i].child.running = FALSE], DOMAIN sessions)
    /\ resp' = NoResp
    /\ UNCHANGED <<variant, server, sessions, nextId, deleted, lastOut, calls>>

\* the 10000 ms timer of start() fires (once; the callback does nothing
\* when ready is already set)
StartTimeout(i) ==
    /\ Live
    /\ variant = "subproc"
    /\ i \in DOMAIN heap
    /\ heap[i].startPromise # "none"
    /\ ~heap[i].ready
    /\ LET a2 == OnStartTimeout(heap[i])
       IN /\ AfterStart(i, a2)
          /\ heap' = Sweep([heap EXCEPT ![i] = a2], DOMAIN sessions')
    /\ UNCHANGED <<variant, server, nextId, deleted, calls>>

\* the 100 ms timer of the oldest sendCommand in flight on adapter i fires;
\* a throw inside the timer callback is an uncaught exception, which ends
\* the node process and with it the registry and every adapter
SubmitTimeout(i) ==
    /\ Live
    /\ variant = "subproc"
    /\ i \in DOMAIN heap
    /\ heap[i].collectors # <<>>
    /\ LET r == OnSubmitTimeout(heap[i])
       IN IF r.threw
          THEN /\ server' = "crashed"
               /\ heap' = <<>>
               /\ sessions' = <<>>
               /\ lastOut' = <<>>
               /\ deleted' = {}
               /\ resp' = NoResp
          ELSE /\ server' = server
               /\ heap' = Sweep([heap EXCEPT ![i] = r.a], DOMAIN sessions)
               /\ resp' = Resp(IF server = "up" THEN "input" ELSE "submit", i, 200,
                               Undefined, r.out, <<>>, r.out)
               /\ lastOut' = [lastOut EXCEPT ![i] = r.out]
               /\ UNCHANGED <<sessions, deleted>>
    /\ UNCHANGED <<variant, nextId, calls>>

\* a handler answering an unknown id with 400 instead of 404
MutNotFoundAs400(op, id, arg) ==
    /\ resp' = Resp(op, id, 400, arg, <<>>, <<>>, <<>>)
    /\ UNCHANGED <<sessions, heap, lastOut>>

\* the 404 answer of a handler that did not find the session
NotFound(op, id, arg) ==
    /\ resp' = Resp(op, id, 404, arg, <<>>, <<>>, <<>>)
    /\ UNCHANGED <<sessions, heap, lastOut>>

\* session.zmachine.input(command) inside the handler's try (stub server)
StubSubmit(id, command) ==
    LET r == StubInput(AdapterOf(id), command)
    IN /\ heap' = [heap EXCEPT ![sessions[id].ref] = r.a]
       /\ IF r.threw
          THEN /\ resp' = Resp("input", id, 400, Undefined, <<>>, <<>>, <<>>)
               /\ UNCHANGED lastOut
          ELSE /\ resp' = Resp("input", id, 200, Undefined, r.out, <<>>, r.produced)
               /\ lastOut' = [lastOut EXCEPT ![id] = r.out]

\* session.sendCommand(command) inside the handler's try (in-process server)
InprocSubmit(id, command) ==
    /\ Len(AdapterOf(id).inputQueue) < MaxQueue
    /\ \E plan \in GamePlans :
         LET r == InprocSendCommand(AdapterOf(id), command, plan)
         IN /\ heap' = [heap EXCEPT ![sessions[id].ref] = r.a]
            /\ IF r.threw
               THEN /\ resp' = Resp("input", id, 400, Undefined, <<>>, <<>>, <<>>)
                    /\ UNCHANGED lastOut
               ELSE /\ resp' = Resp("input", id, 200, Undefined, r.out, <<>>, r.out)
                    /\ lastOut' = [lastOut EXCEPT ![id] = r.out]

\* await session.frotz.sendCommand(command), up to the await (subprocess server)
SubprocSubmit(id, command) ==
    LET r == DFrotzSendCommand(AdapterOf(id), command)
    IN IF r.rejected
       THEN /\ resp' = Resp("input", id, 400, Undefined, <<>>, <<>>, <<>>)
            /\ UNCHANGED <<heap, lastOut>>
       ELSE /\ TotalWrites < MaxWrites
            /\ Len(AdapterOf(id).collectors) < MaxPending
            /\ heap' = [heap EXCEPT ![sessions[id].ref] = r.a]
            /\ resp' = Resp("input", id, 0, Undefined, <<>>, <<>>, <<>>)
            /\ UNCHANGED lastOut

\* POST /api/sessions/:sessionId/input
SendInput(id, command) ==
    /\ server = "up"
    /\ IF ~HasSession(id)
       THEN NotFound("input", id, Undefined)
       ELSE /\ CASE variant = "stub" -> StubSubmit(id, command)
                 [] variant = "inproc" -> InprocSubmit(id, command)
                 [] variant = "subproc" -> SubprocSubmit(id, command)
            /\ UNCHANGED sessions
    /\ UNCHANGED <<variant, server, nextId, deleted, calls>>

\* GET /api/sessions/:sessionId
GetSession(id) ==
    /\ server = "up"
    /\ IF ~HasSession(id)
       THEN NotFound("get", id, Undefined)
       ELSE /\ resp' = Resp("get", id, 200, Undefined, <<>>, SessionGamePath(id), <<>>)
            /\ UNCHANGED <<sessions, heap, lastOut>>
    /\ UNCHANGED <<variant, server, nextId, deleted, calls>>

\* a GET .../output handler behind a sendCommand that blocks the event loop
\* for its window instead of arming a timer
MutGetOutputBehindWait(id) ==
    /\ server = "up"
    /\ variant = "subproc" => \A i \in DOMAIN heap : heap[i].collectors = <<>>
    /\ IF ~HasSession(id)
       THEN NotFound("output", id, Undefined)
       ELSE /\ resp' = Resp("output", id, 200, Undefined, SessionOutput(id), <<>>, <<>>)
            /\ UNCHANGED <<sessions, heap, lastOut>>
    /\ UNCHANGED <<variant, server, nextId, deleted, calls>>

\* GET /api/sessions/:sessionId/output
GetOutput(id) ==
    /\ server = "up"
    /\ IF ~HasSession(id)
       THEN NotFound("output", id, Undefined)
       ELSE /\ resp' = Resp("output", id, 200, Undefined, SessionOutput(id), <<>>, <<>>)
            /\ UNCHANGED <<sessions, heap, lastOut>>
    /\ UNCHANGED <<variant, server, nextId, deleted, calls>>

\* a sessions.delete that removes nothing
MutMapDeleteKeeps(id) == sessions

\* the registry without the entry of id: sessions.delete(sessionId)
MapDelete(id) == [k \in DOMAIN sessions \ {id} |-> sessions[k]]

\* a subprocess DELETE handler that, like the stub's, only drops the entry
MutDeleteSessionNoCleanup(id) ==
    /\ server = "up"
    /\ IF HasSession(id)
       THEN /\ sessions' = MapDelete(id)
            /\ deleted' = deleted \cup {id}
            /\ heap' = IF variant = "subproc" THEN heap
                       ELSE [k \in DOMAIN heap \ {sessions[id].ref} |-> heap[k]]
            /\ resp' = [Resp("delete", id, 200, Undefined, <<>>, <<>>, <<>>)
                              EXCEPT !.disposed = <<AdapterOf(id)>>]
            /\ lastOut' = [k \in DOMAIN lastOut \ {id} |-> lastOut[k]]
       ELSE NotFound("delete", id, Undefined) /\ UNCHANGED deleted
    /\ UNCHANGED <<variant, server, nextId, calls>>

\* DELETE /api/sessions/:sessionId; the adapter object becomes unreachable
\* with its entry unless a timer still holds it.  resp.disposed shows the
\* adapter as the handler left it.
DeleteSession(id) ==
    /\ server = "up"
    /\ IF HasSession(id)
       THEN /\ sessions' = MapDelete(id)
            /\ deleted' = deleted \cup {id}
            /\ IF variant = "subproc"
               THEN LET a2 == DFrotzCleanup(AdapterOf(id))
                    IN /\ heap' = Sweep([heap EXCEPT ![sessions[id].ref] = a2],
                                        DOMAIN sessions')
                       /\ resp' = [Resp("delete", id, 200, Undefined, <<>>, <<>>, <<>>)
                                      EXCEPT !.disposed = <<a2>>]
               ELSE /\ heap' = [k \in DOMAIN heap \ {sessions[id].ref} |-> heap[k]]
                    /\ resp' = [Resp("delete", id, 200, Undefined, <<>>, <<>>, <<>>)
                                      EXCEPT !.disposed = <<AdapterOf(id)>>]
            /\ lastOut' = [k \in DOMAIN lastOut \ {id} |-> lastOut[k]]
       ELSE NotFound("delete", id, Undefined) /\ UNCHANGED deleted
    /\ UNCHANGED <<variant, server, nextId, calls>>

----------------------------------------------------------------------------
(* Direct calls on one adapter object (heap[1]), without the HTTP server:   *)
(* status 200 is a normal return, 500 a throw or a rejected promise.        *)

\* the adapter object each variant constructs for a loaded game
NewAdapter(v) ==
    CASE v = "stub" -> NewZMachineAPI(DEFAULT_GAME.v)
      [] v = "inproc" -> NewZMachineSession(DEFAULT_GAME.v)
      [] v = "subproc" -> NewDFrotzSession(DEFAULT_GAME.v)

Called(method) ==
    /\ server = "none"
    /\ Len(calls) < MaxCalls
    /\ calls' = Append(calls, method)
    /\ UNCHANGED <<variant, server, sessions, nextId, deleted>>

Returned(op, arg, r) ==
    /\ heap' = [heap EXCEPT ![1] = r.a]
    /\ IF r.threw
       THEN resp' = Resp(op, 1, 500, arg, <<>>, <<>>, <<>>) /\ UNCHANGED lastOut
       ELSE /\ resp' = Resp(op, 1, 200, arg, r.out, <<>>, r.out)
            /\ lastOut' = [lastOut EXCEPT ![1] = r.out]

\* adapter.start()
CallStart ==
    /\ Called("start")
    /\ CASE variant = "stub" ->
              LET r == StubStart(heap[1])
              IN Returned("start", Undefined, [a |-> r.a, out |-> r.out, threw |-> FALSE])
         [] variant = "inproc" ->
              \E plan \in GamePlans :
                  Returned("start", Undefined, InprocStart(heap[1], plan))
         [] variant = "subproc" ->
              /\ heap[1].startPromise = "none"
              /\ heap' = [heap EXCEPT ![1] = DFrotzStart(@)]
              /\ resp' = Resp("start", 1, 0, Undefined, <<>>, <<>>, <<>>)
              /\ UNCHANGED lastOut

\* adapter.input(command) / adapter.sendCommand(command)
CallSubmit(command) ==
    /\ Called("submit")
    /\ CASE variant = "stub" ->
              LET r == StubInput(heap[1], command)
              IN IF r.threw
                 THEN Returned("submit", command, r)
                 ELSE /\ heap' = [heap EXCEPT ![1] = r.a]
                      /\ resp' = Resp("submit", 1, 200, command, r.out, <<>>, r.produced)
                      /\ lastOut' = [lastOut EXCEPT ![1] = r.out]
         [] variant = "inproc" ->
              /\ Len(heap[1].inputQueue) < MaxQueue
              /\ \E plan \in GamePlans :
                   Returned("submit", command, InprocSendCommand(heap[1], command, plan))
         [] variant = "subproc" ->
              LET r == DFrotzSendCommand(heap[1], command)
              IN IF r.rejected
                 THEN /\ resp' = Resp("submit", 1, 500, command, <<>>, <<>>, <<>>)
                      /\ UNCHANGED <<heap, lastOut>>
                 ELSE /\ TotalWrites < MaxWrites
                      /\ Len(heap[1].collectors) < MaxPending
                      /\ heap' = [heap EXCEPT ![1] = r.a]
                      /\ resp' = Resp("submit", 1, 0, command, <<>>, <<>>, <<>>)
                      /\ UNCHANGED lastOut

\* adapter.cleanup() (only DFrotzSession has a dispose method)
CallCleanup ==
    /\ Called("cleanup")
    /\ variant = "subproc"
    /\ heap' = [heap EXCEPT ![1] = DFrotzCleanup(@)]
    /\ resp' = Resp("cleanup", 1, 200, Undefined, <<>>, <<>>, <<>>)
    /\ UNCHANGED lastOut

----------------------------------------------------------------------------
(* Specifications *)

\* no CLI client runs
NoCli == [pc |-> "none"]

\* the server after app.listen: an empty registry
Init ==
    /\ variant \in Variants
    /\ server = "up"
    /\ sessions = <<>>
    /\ heap = <<>>
    /\ nextId = 1
    /\ resp = NoResp
    /\ deleted = {}
    /\ lastOut = <<>>
    /\ calls = <<>>
    /\ cli = NoCli

Next ==
    \/ \E gp \in GamePathArgs : CreateSession(gp) /\ UNCHANGED cli
    \/ \E gp \in SpawnGamePathArgs : CreateSessionAsync(gp) /\ UNCHANGED cli
    \/ \E id \in Ids, command \in Commands : SendInput(id, command) /\ UNCHANGED cli
    \/ \E id \in Ids : GetSession(id) /\ UNCHANGED cli
    \/ \E id \in Ids : GetOutput(id) /\ UNCHANGED cli
    \/ \E id \in Ids : DeleteSession(id) /\ UNCHANGED cli
    \/ \E i \in Ids, text \in Chunks : ProcData(i, text) /\ UNCHANGED cli
    \/ \E i \in Ids : SpawnError(i) /\ UNCHANGED cli
    \/ \E i \in Ids : ProcClose(i) /\ UNCHANGED cli
    \/ \E i \in Ids : StartTimeout(i) /\ UNCHANGED cli
    \/ \E i \in Ids : SubmitTimeout(i) /\ UNCHANGED cli

Spec == Init /\ [][Next]_vars

\* one freshly constructed adapter of each variant, no server
InitAdapter ==
    /\ variant \in Variants
    /\ server = "none"
    /\ sessions = <<>>
    /\ heap = (1 :> NewAdapter(variant))
    /\ nextId = 1
    /\ resp = NoResp
    /\ deleted = {}
    /\ lastOut = (1 :> <<>>)
    /\ calls = <<>>
    /\ cli = NoCli

NextAdapter ==
    \/ CallStart /\ UNCHANGED cli
    \/ \E command \in Commands : CallSubmit(command) /\ UNCHANGED cli
    \/ CallCleanup /\ UNCHANGED cli
    \/ \E text \in Chunks : ProcData(1, text) /\ UNCHANGED cli
    \/ SpawnError(1) /\ UNCHANGED cli
    \/ ProcClose(1) /\ UNCHANGED cli
    \/ StartTimeout(1) /\ UNCHANGED cli
    \/ SubmitTimeout(1) /\ UNCHANGED cli

SpecAdapter == InitAdapter /\ [][NextAdapter]_vars

\* one stub adapter as the server uses it: start() once, then commands
PlayCommands ==
    { Str(<<"open", "mailbox">>), Str(<<"take", "brochure">>), Str(<<"inventory">>),
      Str(<<"look">>), Str(<<"take", "knife">>), Str(<<"drop", "brochure">>),
      Str(<<"north">>), Str(<<"restart">>) }

InitPlay ==
    /\ variant = "stub"
    /\ server = "play"
    /\ sessions = <<>>
    /\ heap = (1 :> NewZMachineAPI(DEFAULT_GAME.v))
    /\ nextId = 1
    /\ resp = NoResp
    /\ deleted = {}
    /\ lastOut = (1 :> <<>>)
    /\ calls = <<>>
    /\ cli = NoCli

\* zmachine.start() of POST /api/sessions
PlayStart ==
    /\ server = "play"
    /\ calls = <<>>
    /\ LET r == StubStart(heap[1])
       IN /\ heap' = [heap EXCEPT ![1] = r.a]
          /\ resp' = Resp("start", 1, 200, Undefined, r.out, <<>>, r.out)
          /\ lastOut' = [lastOut EXCEPT ![1] = r.out]
    /\ calls' = <<"start">>
    /\ UNCHANGED <<variant, server, sessions, nextId, deleted>>

\* zmachine.input(command) of POST /api/sessions/:sessionId/input
PlayInput(command) ==
    /\ server = "play"
    /\ calls # <<>>
    /\ Len(calls) < MaxTurns
    /\ LET r == StubInput(heap[1], command)
       IN /\ ~r.threw
          /\ heap' = [heap EXCEPT ![1] = r.a]
          /\ resp' = Resp("submit", 1, 200, command, r.out, <<>>, r.produced)
          /\ lastOut' = [lastOut EXCEPT ![1] = r.out]
    /\ calls' = Append(calls, JoinSpace(command.v))
    /\ UNCHANGED <<variant, server, sessions, nextId, deleted>>

NextPlay ==
    \/ PlayStart /\ UNCHANGED cli
    \/ \E command \in PlayCommands : PlayInput(command) /\ UNCHANGED cli

SpecPlay == InitPlay /\ [][NextPlay]_vars

----------------------------------------------------------------------------
(* The stub game played turn by turn: one started ZMachineAPI adapter is    *)
(* sent commands; resp.arg is the command of the last turn                  *)

\* the commands sent to the game
TurnCommands ==
    { Str(<<"look">>), Str(<<"l">>), Str(<<"look", "mailbox">>),
      Str(<<"examine", "mailbox">>), Str(<<"x", "knife">>),
      Str(<<"north">>), Str(<<"n">>), Str(<<"east">>), Str(<<"e">>),
      Str(<<"west">>), Str(<<"w">>), Str(<<"up">>), Str(<<"u">>),
      Str(<<"south">>), Str(<<"s">>), Str(<<"down">>), Str(<<"d">>),
      Str(<<"go", "east">>), Str(<<"go", "w">>), Str(<<"walk", "north">>),
      Str(<<"move", "n">>),
      Str(<<"open", "mailbox">>), Str(<<"unlock", "box">>), Str(<<"open", "door">>),
      Str(<<"take", "knife">>), Str(<<"get", "rusty", "knife">>),
      Str(<<"take", "brochure">>), Str(<<"grab", "mail">>),
      Str(<<"take", "mailbox">>),
      Str(<<"drop", "knife">>), Str(<<"drop", "rusty">>), Str(<<"drop", "brochure">>),
      Str(<<"inventory">>), Str(<<"i">>), Str(<<"inv">>), Str(<<"pick", "knife">>),
      Str(<<"read", "brochure">>), Str(<<"score">>), Str(<<"wait">>),
      Str(<<"help">>), Str(<<"quit">>), Str(<<"restart">>), Str(<<"xyzzy">>) }

\* words[0] and words.slice(1).join(' ') of a command string
VerbOf(command) == SplitWords(command.v)[1]
NounOf(command) == JoinSpace(Tail(SplitWords(command.v)))

InitTurns ==
    /\ variant = "stub"
    /\ server = "turns"
    /\ sessions = <<>>
    /\ heap = (1 :> NewZMachineAPI(DEFAULT_GAME.v))
    /\ nextId = 1
    /\ resp = NoResp
    /\ deleted = {}
    /\ lastOut = (1 :> <<>>)
    /\ calls = <<>>
    /\ cli = NoCli

\* zmachine.start() of POST /api/sessions
TurnStart ==
    /\ server = "turns"
    /\ calls = <<>>
    /\ LET r == StubStart(heap[1])
       IN /\ heap' = [heap EXCEPT ![1] = r.a]
          /\ resp' = Resp("start", 1, 200, Undefined, r.out, <<>>, r.out)
          /\ lastOut' = [lastOut EXCEPT ![1] = r.out]
    /\ calls' = <<"start">>
    /\ UNCHANGED <<variant, server, sessions, nextId, deleted>>

\* session.zmachine.input(command) of POST /api/sessions/:id/input
TurnInput(command) ==
    /\ server = "turns"
    /\ calls # <<>>
    /\ LET r == StubInput(heap[1], command)
       IN /\ ~r.threw
          /\ heap' = [heap EXCEPT ![1] = r.a]
          /\ resp' = Resp("submit", 1, 200, command, r.out, <<>>, r.produced)
          /\ lastOut' = [lastOut EXCEPT ![1] = r.out]
    /\ UNCHANGED <<variant, server, sessions, nextId, deleted, calls>>

NextTurns ==
    \/ TurnStart /\ UNCHANGED cli
    \/ \E command \in TurnCommands : TurnInput(command) /\ UNCHANGED cli

SpecTurns == InitTurns /\ [][NextTurns]_vars

----------------------------------------------------------------------------
(* The command-line client (ZMachineCLI) talking to the scripted server     *)

\* the tasks (sendCommand invocations) of the client that may be in flight
CliSlots == 1..MaxTasks

\* the lines a user types that are sent to the game
CliLines == { Str(<<"look">>), Str(<<"inventory">>) }

\* options.game after parseArgs and the ZMACHINE_GAME override
CliGameOptions == { Null, Str(<<"story.z5">>) }

\* the ways the user ends the client: the line quit/exit, Ctrl+C, SIGTERM
CliExits == { "quit", "SIGINT", "SIGTERM" }

\* a sendCommand invocation that is not running; result and depth are those
\* of the invocation that last ran in the slot
IdleTask(result, depth) ==
    [at |-> "idle", command |-> Undefined, target |-> 0,
     result |-> result, depth |-> depth]

\* new ZMachineCLI(options.server), cli.gamePath = options.game when one was
\* given, and startInteractive() up to its pending startSession()
NewZMachineCLI(game) ==
    [ pc |-> "boot",
      gamePath |-> IF Truthy(game) THEN game ELSE Undefined,
      sessionId |-> 0,
      tasks |-> [i \in CliSlots |-> IdleTask("none", 0)],
      code |-> -1,
      via |-> "none" ]

\* the message of the Error makeRequest rejects with
ErrorMessage(r) ==
    CASE r.status = 404 -> "Session not found"
      [] r.status = 0 -> "Connection error"
      [] OTHER -> "error"

\* the request never reaches the server: req.on('error')
ConnectionError(op, id, arg) ==
    /\ resp' = Resp(op, id, 0, arg, <<>>, <<>>, <<>>)
    /\ UNCHANGED <<variant, server, sessions, heap, nextId, deleted, lastOut, calls>>

\* await makeRequest('/api/sessions', 'POST', { gamePath }) handled by the
\* server, or lost on the way
PostSessions(gamePath, reachable) ==
    IF reachable THEN CreateSession(gamePath)
    ELSE ConnectionError("create", 0, gamePath)

\* the gamePath startSession posts: its parameter defaults to null and no
\* call site passes an argument
StartSessionArg == Null

\* startSession after its request was answered with r
startSession(c, r) ==
    IF r.status = 200
    THEN [ok |-> TRUE, c |-> [c EXCEPT !.sessionId = r.id]]
    ELSE [ok |-> FALSE, c |-> c]

\* the makeRequest call of sendCommand: the URL is built from this.sessionId
\* when the request is made
CliRequestInput(c, i, command, depth) ==
    [c EXCEPT !.tasks[i] = [at |-> "input", command |-> command,
                            target |-> c.sessionId, result |-> "none",
                            depth |-> depth]]

\* sendCommand returning
CliReturn(c, i, result) ==
    [c EXCEPT !.tasks[i] = IdleTask(result, c.tasks[i].depth)]

\* the 'line' handler for a game command: sendCommand(command) up to its
\* first await
CliEnter(c, i, command) ==
    IF c.sessionId = 0
    THEN [c EXCEPT !.tasks[i] = [at |-> "start", command |-> command,
                                 target |-> 0, result |-> "none", depth |-> 0]]
    ELSE CliRequestInput(c, i, command, 0)

\* sendCommand after the startSession() of its first lines
CliAfterStart(c, i, r) ==
    LET s == startSession(c, r)
    IN IF s.ok
       THEN CliRequestInput(s.c, i, c.tasks[i].command, c.tasks[i].depth)
       ELSE CliReturn(s.c, i, "false")

\* sendCommand forgetting to clear its session id on a 404
MutCliAfterInputKeepsId(c, i, r) ==
    IF r.status = 200
    THEN CliReturn(c, i, "true")
    ELSE IF ErrorMessage(r) = "Session not found"
    THEN [c EXCEPT !.tasks[i].at = "restart"]
    ELSE CliReturn(c, i, "false")

\* sendCommand after its input request was answered with r
CliAfterInput(c, i, r) ==
    IF r.status = 200
    THEN CliReturn(c, i, "true")
    ELSE IF ErrorMessage(r) = "Session not found"
    THEN [c EXCEPT !.sessionId = 0, !.tasks[i].at = "restart"]
    ELSE CliReturn(c, i, "false")

\* the catch branch of sendCommand after its startSession(): the recursive
\* sendCommand(command) finds the new session id set
CliAfterRestart(c, i, r) ==
    LET s == startSession(c, r)
    IN IF s.ok
       THEN CliRequestInput(s.c, i, c.tasks[i].command, c.tasks[i].depth + 1)
       ELSE CliReturn(s.c, i, "false")

\* process.exit(code)
CliExit(c, code, via) ==
    [c EXCEPT !.pc = "exited", !.code = code, !.via = via,
              !.tasks = [i \in CliSlots |->
                           IdleTask(c.tasks[i].result, c.tasks[i].depth)]]

\* the startSession() of startInteractive is answered
CliBoot(reachable) ==
    /\ cli.pc = "boot"
    /\ PostSessions(StartSessionArg, reachable)
    /\ LET s == startSession(cli, resp')
       IN cli' = IF s.ok THEN [s.c EXCEPT !.pc = "run"]
                 ELSE CliExit(s.c, 1, "boot")

\* the user enters a game command
CliLine(i, command) ==
    /\ cli.pc \in {"boot", "run"}
    /\ cli.tasks[i].at = "idle"
    /\ cli' = CliEnter(cli, i, command)
    /\ UNCHANGED <<variant, server, sessions, heap, nextId, resp, deleted,
                   lastOut, calls>>

\* the startSession() of a sendCommand that found no session id is answered
CliTaskStart(i, reachable) ==
    /\ cli.pc \in {"boot", "run"}
    /\ cli.tasks[i].at = "start"
    /\ PostSessions(StartSessionArg, reachable)
    /\ cli' = CliAfterStart(cli, i, resp')

\* the input request of a sendCommand is answered
CliTaskInput(i, reachable) ==
    /\ cli.pc \in {"boot", "run"}
    /\ cli.tasks[i].at = "input"
    /\ IF reachable
       THEN SendInput(cli.tasks[i].target, cli.tasks[i].command)
       ELSE ConnectionError("input", cli.tasks[i].target, Undefined)
    /\ cli' = CliAfterInput(cli, i, resp')

\* the startSession() after a 404 is answered
CliTaskRestart(i, reachable) ==
    /\ cli.pc \in {"boot", "run"}
    /\ cli.tasks[i].at = "restart"
    /\ PostSessions(StartSessionArg, reachable)
    /\ cli' = CliAfterRestart(cli, i, resp')

\* quit/exit, Ctrl+C or SIGTERM: this.cleanup(); process.exit(0). cleanup
\* is not awaited: it hands the DELETE request to the http module and
\* process.exit ends the process in the same tick, so the request may or may
\* not leave the process, and its answer is never seen
CliQuit(how, sent) ==
    /\ cli.pc \in {"boot", "run"}
    /\ IF cli.sessionId # 0 /\ sent
       THEN DeleteSession(cli.sessionId)
       ELSE /\ ~sent
            /\ UNCHANGED <<variant, server, sessions, heap, nextId, resp,
                           deleted, lastOut, calls>>
    /\ cli' = CliExit(cli, 0, how)

\* another client of the server deletes a session
OtherDelete(id) ==
    /\ HasSession(id)
    /\ DeleteSession(id)
    /\ UNCHANGED cli

InitCli ==
    /\ variant = "stub"
    /\ server = "up"
    /\ sessions = <<>>
    /\ heap = <<>>
    /\ nextId = 1
    /\ resp = NoResp
    /\ deleted = {}
    /\ lastOut = <<>>
    /\ calls = <<>>
    /\ cli \in { NewZMachineCLI(game) : game \in CliGameOptions }

NextCli ==
    \/ \E reachable \in BOOLEAN : CliBoot(reachable)
    \/ \E i \in CliSlots, command \in CliLines : CliLine(i, command)
    \/ \E i \in CliSlots, reachable \in BOOLEAN : CliTaskStart(i, reachable)
    \/ \E i \in CliSlots, reachable \in BOOLEAN : CliTaskInput(i, reachable)
    \/ \E i \in CliSlots, reachable \in BOOLEAN : CliTaskRestart(i, reachable)
    \/ \E how \in CliExits, sent \in BOOLEAN : CliQuit(how, sent)
    \/ \E id \in Ids : OtherDelete(id)

SpecCli == InitCli /\ [][NextCli]_vars

----------------------------------------------------------------------------
(* Properties of the session registry (specification Spec)                  *)

\* C1: a command posted for an id the registry does not hold (never created
\* or already deleted) is answered 404, in every variant and whatever
\* happened before, and leaves the registry and every adapter as they were.
C1_UnknownIdCommandNotFound ==
    [][ (resp'.op = "input" /\ resp'.id \notin DOMAIN sessions)
            => (resp'.status = 404 /\ sessions' = sessions /\ heap' = heap) ]_vars

\* a command for a deleted id was answered 404 while another session lives
C1_Witness ==
    /\ resp.op = "input"
    /\ resp.status = 404
    /\ resp.id \in deleted
    /\ DOMAIN sessions # {}

\* C2: a DELETE of an id the registry holds answers 200 and removes the
\* entry; every DELETE of an id that was deleted before answers 404 and
\* changes nothing; no DELETE of an id the registry lacks answers 200.
C2_DeleteSucceedsOnce ==
    [][ resp'.op = "delete" =>
          /\ resp'.id \in DOMAIN sessions =>
                 /\ resp'.status = 200
                 /\ resp'.id \notin DOMAIN sessions'
                 /\ deleted' = deleted \cup {resp'.id}
          /\ resp'.id \notin DOMAIN sessions => resp'.status = 404
          /\ resp'.id \in deleted =>
                 /\ resp'.status = 404
                 /\ sessions' = sessions
                 /\ heap' = heap ]_vars

\* a second DELETE of the same id was answered 404 after another session
\* had been created in between
C2_Witness ==
    /\ resp.op = "delete"
    /\ resp.status = 404
    /\ resp.id \in deleted
    /\ \E k \in DOMAIN sessions : k > resp.id

\* C3: while the server runs, the set of registered ids changes only by a
\* create answered 200, which adds exactly its fresh id, and by a DELETE
\* answered 200, which removes exactly its id; every other step (commands,
\* reads, failed requests, process events) leaves the set as it is.
C3_RegistryTracksCreateDelete ==
    [][ server' = "up" =>
          CASE resp'.op = "create" /\ resp'.status = 200 /\ resp' # resp ->
                   /\ resp'.id \notin DOMAIN sessions
                   /\ DOMAIN sessions' = DOMAIN sessions \cup {resp'.id}
            [] resp'.op = "delete" /\ resp'.status = 200 /\ resp' # resp ->
                   /\ resp'.id \in DOMAIN sessions
                   /\ DOMAIN sessions' = DOMAIN sessions \ {resp'.id}
            [] OTHER -> DOMAIN sessions' = DOMAIN sessions ]_vars

\* a command was answered 200 when one id had been deleted and another was
\* registered
C3_Witness ==
    /\ resp.op = "input"
    /\ resp.status = 200
    /\ deleted # {}
    /\ DOMAIN sessions # {}
    /\ DOMAIN sessions \cap deleted = {}

\* C4: a create answered 200 reports the absolute resolution of the posted
\* gamePath (of the default when none was posted) and registers that value;
\* GET reports the registered value; no step changes the value of an id
\* that stays registered.
C4_GamePathIsResolvedLoadPath ==
    [][ /\ \A id \in DOMAIN sessions \cap DOMAIN sessions' :
               SessionGamePath(id)' = SessionGamePath(id)
        /\ (resp'.op = "create" /\ resp'.status = 200 /\ variant # "subproc") =>
               /\ resp'.gamePath = PathResolve(OrElse(resp'.arg, DEFAULT_GAME).v)
               /\ \A id \in Ids : id = resp'.id => SessionGamePath(id)' = resp'.gamePath
        /\ (resp'.op = "create" /\ resp'.status = 0) =>
               heap'[resp'.id].gamePath = PathResolve(OrElse(resp'.arg, DEFAULT_GAME).v)
        /\ (resp'.op = "create" /\ resp'.status = 200 /\ variant = "subproc") =>
               /\ resp'.gamePath = heap[resp'.id].gamePath
               /\ heap'[resp'.id].gamePath = heap[resp'.id].gamePath
               /\ \A id \in Ids : id = resp'.id => SessionGamePath(id)' = resp'.gamePath
        /\ (resp'.op = "get" /\ resp'.status = 200) =>
               resp'.gamePath = SessionGamePath(resp'.id) ]_vars

\* GET reported the resolved relative path of a session that has processed
\* a command
C4_Witness ==
    /\ resp.op = "get"
    /\ resp.status = 200
    /\ resp.gamePath = Cwd \o <<"story.z5">>
    /\ variant = "stub"
    /\ AdapterOf(resp.id).outputBuffer # <<>>

\* C5: the transcript a command is answered with is exactly the text
\* produced during that call, nothing of an earlier turn.
C5_TurnScoped ==
    (resp.op = "input" /\ resp.status = 200) => resp.output = resp.produced

\* C6: the text GET .../output reports equals the transcript the last
\* create or command of that session was answered with, as long as no
\* command is in flight.
C6_PolledIsLastReturned ==
    (/\ resp.op = "output"
     /\ resp.status = 200
     /\ variant = "subproc" => AdapterOf(resp.id).collectors = <<>>)
        => resp.output = lastOut[resp.id]

\* C7: a create whose game cannot be loaded is answered 400; every create
\* answered 400 leaves the registry as it was, without an entry for the
\* generated id, and that id is answered 404 from then on.
C7_FailedCreateStoresNothing ==
    [][ /\ (/\ resp'.op = "create"
            /\ nextId' = nextId + 1
            /\ ~loadGame(OrElse(resp'.arg, DEFAULT_GAME)).ok) => resp'.status = 400
        /\ (resp'.op = "create" /\ resp'.status = 400) =>
               /\ sessions' = sessions
               /\ resp'.id \notin DOMAIN sessions'
        /\ (/\ resp.op = "create"
            /\ resp.status = 400
            /\ resp'.id = resp.id
            /\ resp'.op \in {"input", "get", "output", "delete"}) =>
               resp'.status = 404 ]_vars

\* the start of a dfrotz process was rejected while another session is
\* registered
C7_Witness ==
    /\ resp.op = "create"
    /\ resp.status = 400
    /\ variant = "subproc"
    /\ resp.id \in DOMAIN heap
    /\ heap[resp.id].startPromise = "rejected"
    /\ DOMAIN sessions # {}

\* C10: a DELETE answered 200 leaves no entry for the id and none that
\* refers to its adapter; the dfrotz adapter it disposed has stdin ended,
\* the process killed and the handle cleared; every later request for the
\* id is answered 404 and touches no adapter.
C10_DeleteDisposesAdapter ==
    [][ /\ (resp'.op = "delete" /\ resp'.status = 200) =>
               /\ resp'.id \notin DOMAIN sessions'
               /\ \A k \in DOMAIN sessions' : sessions'[k].ref # sessions[resp'.id].ref
               /\ variant = "subproc" =>
                      LET d == resp'.disposed[1]
                      IN /\ d.proc = "null"
                         /\ d.child.stdinEnded
                         /\ d.child.kills = 1
                         /\ ~d.child.running
        /\ (resp'.id \in deleted /\ resp'.op \in {"input", "get", "output", "delete"}) =>
               (resp'.status = 404 /\ heap' = heap) ]_vars

\* a registered dfrotz session with a live process was deleted while
\* another session stays registered
C10_Witness ==
    /\ resp.op = "delete"
    /\ resp.status = 200
    /\ variant = "subproc"
    /\ resp.disposed[1].child.killed
    /\ DOMAIN sessions # {}

\* C11: no two registered ids share an adapter, and a step leaves the
\* registry entry, adapter and last transcript of a registered session B as
\* they were unless the step is a response to a request for B or an event
\* of B's own process.
C11_SessionsIndependent ==
    [][ \A B \in DOMAIN sessions :
          /\ \A A \in DOMAIN sessions : A # B => sessions[A].ref # sessions[B].ref
          /\ \/ resp'.id = B
             \/ /\ B \in DOMAIN sessions'
                /\ sessions'[B] = sessions[B]
                /\ lastOut'[B] = lastOut[B]
                /\ \/ heap'[sessions[B].ref] = heap[sessions[B].ref]
                   \/ /\ variant = "subproc"
                      /\ heap'[sessions[B].ref].child # heap[sessions[B].ref].child ]_vars

\* C14: a dfrotz start that is pending is never abandoned and is settled at
\* its first trigger: while it is pending the accumulated output holds
\* neither '>' nor 'ZORK'; when it resolves, a marker has just arrived or
\* the 10000 ms timer has fired, ready is true and the transcript answered
\* is exactly the accumulated output; it is rejected only by a spawn error.
C14_StartSettlesAtFirstTrigger ==
    [][ variant = "subproc" =>
          \A i \in DOMAIN heap :
             heap[i].startPromise = "pending" =>
                /\ ~StrIncludes(heap[i].startupOutput, <<">">>)
                /\ ~StrIncludes(heap[i].startupOutput, <<"Z", "O", "R", "K">>)
                /\ i \in DOMAIN heap'
                /\ i \in DOMAIN heap' =>
                     /\ heap'[i].startPromise = "resolved" =>
                           /\ heap'[i].ready
                           /\ heap'[i].outputBuffer = heap'[i].startupOutput
                           /\ resp'.id = i
                           /\ resp'.status = 200
                           /\ resp'.output = heap'[i].startupOutput
                           /\ \/ StrIncludes(heap'[i].startupOutput, <<">">>)
                              \/ StrIncludes(heap'[i].startupOutput, <<"Z", "O", "R", "K">>)
                              \/ heap'[i].child = heap[i].child
                     /\ heap'[i].startPromise = "rejected" =>
                           /\ ~heap'[i].child.running
                           /\ heap'[i].child.emitted = 0
                           /\ resp'.id = i
                           /\ resp'.status = 400 ]_vars

\* C16: a sendCommand in flight is never abandoned, and its call returns
\* when its 100 ms timer fires: the step that ends it answers the request
\* with 200, with the empty transcript when the process sent nothing.
C16_SubmitAlwaysReturns ==
    [][ variant = "subproc" =>
          \A i \in DOMAIN heap :
             heap[i].collectors # <<>> =>
                /\ i \in DOMAIN heap'
                /\ i \in DOMAIN heap' =>
                     /\ Len(heap'[i].collectors) >= Len(heap[i].collectors) - 1
                     /\ Len(heap'[i].collectors) < Len(heap[i].collectors) =>
                           /\ resp'.op = "input"
                           /\ resp'.id = i
                           /\ resp'.status = 200
                           /\ Head(heap[i].collectors) = <<>> => resp'.output = <<>> ]_vars

----------------------------------------------------------------------------
(* Properties of one adapter object (specification SpecAdapter)             *)

\* C8: a submit called on an adapter that has not completed a start, or
\* that has been disposed, fails (throws or rejects) and changes nothing.
C8_SubmitNeedsStartedAdapter ==
    [][ (/\ calls' = Append(calls, "submit")
         /\ LET a == heap[1]
            IN CASE variant = "stub" -> ~a.gameStarted
                 [] variant = "inproc" -> ~a.started
                 [] variant = "subproc" ->
                        \/ a.startPromise # "resolved"
                        \/ (a.proc = "null" /\ a.child.ends > 0))
            => (resp'.status = 500 /\ heap' = heap) ]_vars

\* C13: in the in-process adapter, whatever state it is in, a start or a
\* sendCommand during which the interpreter raises only faults (never the
\* suspend-for-input signal) returns normally with the output accumulated
\* so far and leaves the adapter not executing.
C13_FaultsSwallowed ==
    variant = "inproc" =>
        \A plan \in GamePlans :
            (\A k \in DOMAIN plan : plan[k].end # "suspend") =>
                /\ LET r == InprocStart(heap[1], plan)
                   IN ~r.threw /\ ~r.a.executing /\ r.out = r.a.output
                /\ \A command \in Commands :
                       LET r == InprocSendCommand(heap[1], command, plan)
                       IN ~r.threw /\ ~r.a.executing /\ r.out = r.a.output

\* C15: a sendCommand that is accepted appends exactly one string to the
\* process's stdin, the command followed by one newline, and starts with
\* nothing collected; every 'data' event adds its bytes to the process's
\* complete output and to what each command in flight has collected; when
\* the 100 ms timer of a command fires normally, the call returns what was
\* collected without everything through its first newline (all of it when
\* it has no newline), and outputBuffer becomes that value.
C15_SubmitWritesAndCollects ==
    [][ (variant = "subproc" /\ 1 \in DOMAIN heap') =>
          LET a == heap[1]
              b == heap'[1]
          IN /\ calls' = Append(calls, "submit") =>
                  \/ resp'.status = 500 /\ b = a
                  \/ /\ resp'.status = 0
                     /\ b.child.stdin =
                            Append(a.child.stdin, <<ToStringJS(resp'.arg), "\n">>)
                     /\ b.collectors = Append(a.collectors, <<>>)
             /\ calls' = calls => b.child.stdin = a.child.stdin
             /\ b.child.emitted # a.child.emitted =>
                  \E text \in Chunks :
                     /\ b.startupOutput = a.startupOutput \o text
                     /\ b.collectors = [k \in DOMAIN a.collectors |-> a.collectors[k] \o text]
             /\ Len(b.collectors) < Len(a.collectors) =>
                  LET collected == Head(a.collectors)
                  IN /\ resp'.op = "submit"
                     /\ resp'.status = 200
                     /\ b.outputBuffer = resp'.output
                     /\ lastOut'[1] = resp'.output
                     /\ IF \A k \in DOMAIN collected : collected[k] # "\n"
                        THEN resp'.output = collected
                        ELSE \E n \in DOMAIN collected :
                               /\ collected[n] = "\n"
                               /\ \A k \in 1..(n - 1) : collected[k] # "\n"
                               /\ collected = SubSeq(collected, 1, n) \o resp'.output ]_vars

\* a command was written, dfrotz echoed it and answered inside the window,
\* and the call returned the answer without the echo
C15_Witness ==
    /\ variant = "subproc"
    /\ 1 \in DOMAIN heap
    /\ resp.op = "submit"
    /\ resp.status = 200
    /\ heap[1].child.stdin = << <<"look", "\n">> >>
    /\ heap[1].child.emitted = 2
    /\ resp.output = <<"t", "\n", ">">>
    /\ heap[1].outputBuffer = resp.output

\* C9: cleanup never faults and leaves the process handle cleared; a
\* cleanup called right after a cleanup changes nothing.
C9_CleanupIdempotent ==
    [][ calls' = Append(calls, "cleanup") =>
          /\ resp'.op = "cleanup"
          /\ resp'.status = 200
          /\ heap'[1].proc = "null"
          /\ (calls # <<>> /\ calls[Len(calls)] = "cleanup") => heap' = heap ]_vars

\* cleanup was called twice on an adapter whose process had been spawned
C9_Witness ==
    /\ Len(calls) >= 3
    /\ calls[Len(calls)] = "cleanup"
    /\ calls[Len(calls) - 1] = "cleanup"
    /\ heap[1].child.ends = 1
    /\ heap[1].child.kills = 1
    /\ heap[1].proc = "null"

----------------------------------------------------------------------------
(* Properties of the stub game (specification SpecPlay)                     *)

\* C12: on a fresh session the first output has the line "West of House";
\* "open mailbox" then answers "You open the mailbox. Inside, you see a
\* brochure."; "take brochure" then answers "Taken." followed by the prompt
\* line; "inventory" then lists "  brochure" under "You are carrying:".
C12_StubScenario ==
    /\ calls = <<"start">> => Includes(resp.output, "West of House")
    /\ calls = <<"start", "open mailbox">> =>
           resp.output = <<"You open the mailbox. Inside, you see a brochure.", ">">>
    /\ calls = <<"start", "open mailbox", "take brochure">> =>
           resp.output = <<"Taken.", ">">>
    /\ calls = <<"start", "open mailbox", "take brochure", "inventory">> =>
           resp.output = <<"You are carrying:", "  brochure", ">">>

\* the scenario was played to its end
C12_Witness ==
    /\ calls = <<"start", "open mailbox", "take brochure", "inventory">>
    /\ Includes(resp.output, "  brochure")
    /\ heap[1].inventory = <<"brochure">>

\* C12 as worded: the output of "take brochure" is the text "Taken." alone
C12_AsWorded ==
    /\ calls = <<"start">> => Includes(resp.output, "West of House")
    /\ calls = <<"start", "open mailbox">> =>
           Includes(resp.output, "You open the mailbox. Inside, you see a brochure.")
    /\ calls = <<"start", "open mailbox", "take brochure">> =>
           resp.output = <<"Taken.">>
    /\ calls = <<"start", "open mailbox", "take brochure", "inventory">> =>
           Includes(resp.output, "  brochure")

----------------------------------------------------------------------------
(* Properties of the command-line client (specification SpecCli)            *)

\* C18: when the input request of a sendCommand is answered 404 'Session not
\* found', the client discards its session id and goes on to create a session
\* with the same command in hand; when that creation succeeds, the new id is a
\* session that did not exist before, it becomes the one id the client holds,
\* and the same command is sent to it; when the creation fails, the
\* sendCommand returns false with no further request. The client's session id
\* is at all times null or one id the server has handed out.
C18_RecreatesOn404 ==
    [][ /\ cli.pc # "none" => cli'.sessionId \in 0..(nextId' - 1)
        /\ \A i \in CliSlots :
             LET t == cli.tasks[i]
                 t2 == cli'.tasks[i]
             IN /\ ( /\ t.at = "input" /\ t2.at # "input" /\ cli'.pc # "exited"
                     /\ resp'.status = 404 )
                   => /\ resp'.op = "input" /\ resp'.id = t.target
                      /\ cli'.sessionId = 0
                      /\ t2.at = "restart"
                      /\ t2.command = t.command
                /\ ( /\ t.at = "restart" /\ t2.at # "restart"
                     /\ cli'.pc # "exited" )
                   => /\ resp'.op = "create"
                      /\ IF resp'.status = 200
                         THEN /\ ~HasSession(resp'.id)
                              /\ resp'.id \in DOMAIN sessions'
                              /\ cli'.sessionId = resp'.id
                              /\ t2.at = "input"
                              /\ t2.target = resp'.id
                              /\ t2.command = t.command
                         ELSE /\ t2.at = "idle"
                              /\ t2.result = "false"
                              /\ cli'.sessionId = cli.sessionId
                /\ ( /\ t.at = "input" /\ t.depth > 0 /\ t2.at = "idle"
                     /\ cli'.pc # "exited" /\ resp'.status = 200 )
                   => /\ resp'.op = "input" /\ resp'.id = t.target
                      /\ t2.result = "true"
                      /\ heap'[sessions[t.target].ref] =
                           StubInput(AdapterOf(t.target), t.command).a
      ]_vars

\* a command was answered by the session created after a 404, and the first
\* session is gone
C18_Witness ==
    /\ cli.pc = "run"
    /\ \E i \in CliSlots :
         /\ cli.tasks[i].at = "idle"
         /\ cli.tasks[i].result = "true"
         /\ cli.tasks[i].depth = 1
    /\ cli.sessionId = 2
    /\ 1 \in deleted
    /\ resp.op = "input" /\ resp.status = 200 /\ resp.id = 2

\* C19: once the client has exited through quit/exit, Ctrl+C or SIGTERM while
\* holding a session id, that session has been deleted and is no longer in
\* the server's registry.
C19_ExitDeletesSession ==
    ( /\ cli.pc = "exited"
      /\ cli.via \in CliExits
      /\ cli.sessionId # 0 )
    => /\ ~HasSession(cli.sessionId)
       /\ cli.sessionId \in deleted

\* C20: when the client was given a game path, every session-creation request
\* it makes, the first one and those after a 404, carries that path as its
\* gamePath.
C20_GameOptionIsPosted ==
    ( /\ cli.pc # "none"
      /\ cli.gamePath.kind = "string"
      /\ resp.op = "create" )
    => resp.arg = cli.gamePath

----------------------------------------------------------------------------
(* Properties of the stub game world (specification SpecTurns)              *)

\* the verbs of processCommand that reach doTake, and the nouns by which
\* doTake knows each item
TakeVerbs == {"take", "get", "grab", "pick"}
ItemOfNoun(noun) ==
    CASE noun \in {"knife", "rusty knife", "rusty"} -> "rusty knife"
      [] noun \in {"brochure", "paper", "mail"} -> "brochure"
      [] OTHER -> "none"

\* C21: the inventory never holds an item twice and holds only the rusty
\* knife and the brochure; a take of an item that is held answers 'You
\* already have that.' and leaves the inventory as it was.
C21_InventoryIsSet ==
    [][ LET a == heap[1]
            b == heap'[1]
        IN /\ \A i, j \in DOMAIN b.inventory :
                 b.inventory[i] = b.inventory[j] => i = j
           /\ \A i \in DOMAIN b.inventory :
                 b.inventory[i] \in {"rusty knife", "brochure"}
           /\ ( /\ resp'.op = "submit"
                /\ VerbOf(resp'.arg) \in TakeVerbs
                /\ Includes(a.inventory, ItemOfNoun(NounOf(resp'.arg))) )
              => /\ resp'.output = <<"You already have that.">> \o Prompt
                 /\ b.inventory = a.inventory ]_vars

\* C22: the brochure is in the inventory only when the mailbox has been
\* opened; a take of the brochure while the mailbox is unopened leaves the
\* inventory unchanged, and is answered at the field with the hint to open
\* the mailbox first and elsewhere with "You don't see that here.".
C22_BrochureNeedsOpenMailbox ==
    [][ LET a == heap[1]
            b == heap'[1]
        IN /\ Includes(b.inventory, "brochure") => b.openedMailbox
           /\ ( /\ resp'.op = "submit"
                /\ VerbOf(resp'.arg) \in TakeVerbs
                /\ ItemOfNoun(NounOf(resp'.arg)) = "brochure"
                /\ ~a.openedMailbox )
              => /\ b.inventory = a.inventory
                 /\ resp'.output =
                      IF a.location = "field"
                      THEN <<"You don't see that here. Maybe you should open the mailbox first?">>
                           \o Prompt
                      ELSE <<"You don't see that here.">> \o Prompt ]_vars

\* the brochure was asked for at the field before the mailbox was opened
\* and the hint was given
C22_Witness ==
    /\ server = "turns"
    /\ resp.op = "submit"
    /\ resp.arg = Str(<<"take", "brochure">>)
    /\ heap[1].location = "field"
    /\ ~heap[1].openedMailbox
    /\ heap[1].inventory = <<"rusty knife">>
    /\ resp.output = <<"You don't see that here. Maybe you should open the mailbox first?">>
                     \o Prompt

\* C22 as worded: every take of the brochure while the mailbox is unopened
\* is answered with the hint to open the mailbox first, wherever the player
\* stands.
C22_AsWorded ==
    [][ ( /\ resp'.op = "submit"
          /\ server = "turns"
          /\ VerbOf(resp'.arg) \in TakeVerbs
          /\ ItemOfNoun(NounOf(resp'.arg)) = "brochure"
          /\ ~heap[1].openedMailbox )
        => /\ heap'[1].inventory = heap[1].inventory
           /\ resp'.output =
                <<"You don't see that here. Maybe you should open the mailbox first?">>
                \o Prompt ]_vars

\* the verbs of processCommand that reach doGo with their noun, and the
\* verbs that only report
GoVerbs == {"go", "walk", "move"}
ReportVerbs ==
    {"look", "l", "inventory", "i", "inv", "examine", "x", "read", "help",
     "score", "wait"}
KnownVerbs ==
    ReportVerbs \cup GoVerbs \cup Directions \cup TakeVerbs
    \cup {"open", "unlock", "drop", "quit", "q", "restart"}

\* C23: a command changes the location only when its verb is go/walk/move,
\* a direction word or restart, the inventory only when its verb is
\* take/get/grab/pick, drop or restart, and the mailbox flag only when its
\* verb is open/unlock or restart; look, inventory, examine, read, help,
\* score, wait and unrecognised commands change none of the three; the
\* location is always field or porch.
C23_VerbsOwnTheirState ==
    [][ (server = "turns" /\ resp'.op = "submit") =>
          LET a == heap[1]
              b == heap'[1]
              verb == VerbOf(resp'.arg)
          IN /\ b.location # a.location =>
                  verb \in GoVerbs \cup Directions \cup {"restart"}
             /\ b.inventory # a.inventory =>
                  verb \in TakeVerbs \cup {"drop", "restart"}
             /\ b.openedMailbox # a.openedMailbox =>
                  verb \in {"open", "unlock", "restart"}
             /\ (verb \in ReportVerbs \/ verb \notin KnownVerbs) =>
                  /\ b.location = a.location
                  /\ b.inventory = a.inventory
                  /\ b.openedMailbox = a.openedMailbox
             /\ b.location \in {"field", "porch"} ]_vars

\* the mailbox was examined on the porch by a player who carries both items
C23_Witness ==
    /\ server = "turns"
    /\ resp.op = "submit"
    /\ resp.arg = Str(<<"examine", "mailbox">>)
    /\ heap[1].location = "porch"
    /\ heap[1].inventory = <<"brochure", "rusty knife">>
    /\ heap[1].openedMailbox

\* C24: a restart returns the welcome transcript and leaves the location,
\* the inventory, the mailbox flag, the started flag and the ended flag as
\* they are in a freshly started session, and every command then gets the
\* answer it gets on a freshly started session.
C24_RestartIsFreshSession ==
    [][ ( /\ server = "turns"
          /\ resp'.op = "submit"
          /\ VerbOf(resp'.arg) = "restart" )
        => LET b == heap'[1]
               fresh == StubStart(NewZMachineAPI(b.storyFile)).a
           IN /\ resp'.output = getWelcomeMessage
              /\ b.location = fresh.location
              /\ b.inventory = fresh.inventory
              /\ b.openedMailbox = fresh.openedMailbox
              /\ b.gameStarted = fresh.gameStarted
              /\ b.gameEnded = fresh.gameEnded
              /\ \A command \in TurnCommands :
                    StubInput(b, command).out = StubInput(fresh, command).out ]_vars

\* C25: a command with the verb look and a noun gets the answer of examine
\* for that noun; a bare look or l gets the description of the location.
C25_LookNounIsExamine ==
    [][ (server = "turns" /\ resp'.op = "submit") =>
          LET a == heap[1]
              verb == VerbOf(resp'.arg)
              noun == NounOf(resp'.arg)
          IN /\ (verb = "look" /\ noun # "") =>
                  resp'.output = StubInput(a, Str(<<"examine", noun>>)).out
             /\ (verb \in {"look", "l"} /\ noun = "") =>
                  resp'.output = doLook(a).out ]_vars

\* the one-letter abbreviation of each direction word
Abbreviation(direction) ==
    CASE direction = "north" -> "n"
      [] direction = "south" -> "s"
      [] direction = "east" -> "e"
      [] direction = "west" -> "w"
      [] direction = "up" -> "u"
      [] direction = "down" -> "d"

FullDirections == {"north", "south", "east", "west", "up", "down"}

\* C26: a turn whose command is the abbreviation of a direction, alone or
\* after go, walk or move, gets the answer and leads to the location that
\* the full direction word gets in the same state.
C26_AbbreviationsAgree ==
    [][ (server = "turns" /\ resp'.op = "submit") =>
          \A direction \in FullDirections :
              LET a == heap[1]
                  words == SplitWords(resp'.arg.v)
                  short == Abbreviation(direction)
              IN /\ words = <<short>> =>
                      /\ resp'.output = StubInput(a, Str(<<direction>>)).out
                      /\ heap'[1].location
                           = StubInput(a, Str(<<direction>>)).a.location
                 /\ \A verb \in GoVerbs :
                      words = <<verb, short>> =>
                          /\ resp'.output = StubInput(a, Str(<<verb, direction>>)).out
                          /\ heap'[1].location
                               = StubInput(a, Str(<<verb, direction>>)).a.location ]_vars

\* the inventory without one item
Without(inventory, item) == SelectSeq(inventory, LAMBDA x : x # item)

\* C27: a drop of an item that is held answers 'Dropped.' and removes the
\* item from the inventory, and a take of an item that is not held, followed
\* by the drop of that item, leaves the inventory as it was before the take.
C27_DropUndoesTake ==
    [][ ( /\ server = "turns"
          /\ resp'.op = "submit"
          /\ VerbOf(resp'.arg) = "drop"
          /\ Includes(heap[1].inventory, ItemOfNoun(NounOf(resp'.arg))) )
        => LET a == heap[1]
               item == ItemOfNoun(NounOf(resp'.arg))
           IN /\ resp'.output = <<"Dropped.">> \o Prompt
              /\ heap'[1].inventory = Without(a.inventory, item)
              /\ ( /\ resp.op = "submit"
                   /\ VerbOf(resp.arg) \in TakeVerbs
                   /\ ItemOfNoun(NounOf(resp.arg)) = item
                   /\ resp.output = <<"Taken.">> \o Prompt )
                 => Append(heap'[1].inventory, item) = a.inventory ]_vars

----------------------------------------------------------------------------
(* Properties of the in-process adapter's input hand-over (specification    *)
(* SpecAdapter)                                                             *)

\* q is what remains of p after some of its first elements were taken
IsSuffix(q, p) ==
    /\ Len(q) <= Len(p)
    /\ q = SubSeq(p, Len(p) - Len(q) + 1, Len(p))

\* C28: on a started adapter, a command that arrives while an input request
\* is pending is handed to that request, which no command has resumed before
\* and which no queued command is still waiting for; a command that arrives
\* when none is pending goes to the end of the queue, which is consumed from
\* its front.
C28_EachCommandHandedOnce ==
    [][ ( /\ variant = "inproc" /\ server = "none"
          /\ calls' = Append(calls, "submit")
          /\ heap[1].started ) =>
          LET a == heap[1]
              b == heap'[1]
          IN IF a.pendingInputState # 0 /\ a.gameInstance
             THEN /\ ~a.resumed
                  /\ a.inputQueue = <<>>
                  /\ b.inputQueue = <<>>
             ELSE IsSuffix(b.inputQueue, Append(a.inputQueue, resp'.arg)) ]_vars

----------------------------------------------------------------------------
(* Properties of the subprocess adapter's process handle (specifications    *)
(* Spec and SpecAdapter)                                                    *)

\* C29: while a command is in flight on an adapter whose process handle
\* cleanup has cleared, every step leaves the server running, and the step
\* that ends the command answers its request (with a transcript or with a
\* rejection).
C29_DeleteInsideWindowIsSafe ==
    [][ (variant = "subproc" /\ server = "up") =>
          \A i \in DOMAIN heap :
             (heap[i].proc = "null" /\ heap[i].collectors # <<>>) =>
                /\ server' = "up"
                /\ \/ /\ i \in DOMAIN heap'
                      /\ heap'[i].collectors = heap[i].collectors
                   \/ /\ resp'.op = "input"
                      /\ resp'.id = i
                      /\ resp'.status \in {200, 400} ]_vars

\* C30: a sendCommand called on a started adapter whose process is not
\* running, because cleanup killed it or because it ended by itself, is
\* rejected and writes nothing to the process's stdin.
C30_RejectsWhenNotRunning ==
    [][ ( /\ variant = "subproc" /\ server = "none"
          /\ calls' = Append(calls, "submit")
          /\ heap[1].startPromise = "resolved"
          /\ ~heap[1].child.running )
        => /\ resp'.op = "submit"
           /\ resp'.status = 500
           /\ heap'[1].child.stdin = heap[1].child.stdin
           /\ heap'[1].collectors = heap[1].collectors ]_vars

----------------------------------------------------------------------------
(* Properties of the subprocess server's registry (specification Spec)      *)

\* C31: in the subprocess server every session of the registry has finished
\* its start: its start promise is resolved, ready is true and its process
\* handle is not null; and an adapter whose start is still in progress is
\* not in the registry and no sendCommand has reached it (nothing was
\* written to its process and no command awaits its timer).
C31_RegisteredAfterStart ==
    variant = "subproc" =>
       /\ \A id \in DOMAIN sessions :
             /\ sessions[id].ref \in DOMAIN heap
             /\ AdapterOf(id).startPromise = "resolved"
             /\ AdapterOf(id).ready
             /\ AdapterOf(id).proc # "null"
       /\ \A i \in DOMAIN heap :
             heap[i].startPromise = "pending" =>
                /\ \A id \in DOMAIN sessions : sessions[id].ref # i
                /\ heap[i].collectors = <<>>
                /\ heap[i].child.stdin = <<>>

\* a registered session with a command in flight while the start of
\* another session is still in progress
C31_Witness ==
    /\ variant = "subproc"
    /\ server = "up"
    /\ \E id \in DOMAIN sessions :
          /\ AdapterOf(id).collectors # <<>>
          /\ \E i \in DOMAIN heap : i # id /\ heap[i].startPromise = "pending"

====
